---- MODULE Spec2Model ----
(***************************************************************************)
(* A model of ceviche_utilities.py: the density combiner, the projection   *)
(* and blur operators, the permittivity parameterization and the animator. *)
(*                                                                         *)
(* The numeric routines are pure functions and are modelled as operators;  *)
(* a call is a two-state behaviour: the arguments are drawn (pc = "call"), *)
(* then the function is applied (pc = "done").  animate is a sequential    *)
(* process over a file system and is modelled statement by statement.      *)
(*                                                                         *)
(* Numbers.  A float is modelled by an exact rational [n |-> , d |-> ] in  *)
(* lowest terms with d > 0, extended by the three non-finite floats a      *)
(* division can create: +inf = 1/0, -inf = -1/0 and NaN = 0/0.  Rounding   *)
(* error is not modelled.                                                  *)
(***************************************************************************)
EXTENDS Integers, Sequences, FiniteSets, TLC

VARIABLES
    fn,         \* the routine being called
    args,       \* its arguments, a record
    pc,         \* where the call is: "call" on entry, "done" once returned
    local,      \* the local variables of a routine that runs in several steps
    ret,        \* the return value (meaningful when pc = "done")
    fs          \* the file system: the set of paths that exist

vars == <<fn, args, pc, local, ret, fs>>

-----------------------------------------------------------------------------
(* Float arithmetic on extended rationals                                  *)

Abs(x) == IF x < 0 THEN -x ELSE x

Min(a, b) == IF a < b THEN a ELSE b

Max(a, b) == IF a > b THEN a ELSE b

Sign(x) == IF x < 0 THEN -1 ELSE IF x > 0 THEN 1 ELSE 0

RECURSIVE GCD(_, _)
GCD(a, b) == IF b = 0 THEN a ELSE GCD(b, a % b)

\* n/d in lowest terms; x/0 is +-inf and 0/0 is NaN, as in IEEE division
Rat(n, d) ==
    IF d = 0 THEN [n |-> Sign(n), d |-> 0]
    ELSE LET g == GCD(Abs(n), Abs(d))
             s == IF d < 0 THEN -1 ELSE 1
         IN  [n |-> (s * n) \div g, d |-> (s * d) \div g]

Num(k) == [n |-> k, d |-> 1]

NaN == [n |-> 0, d |-> 0]

IsNaN(x) == x.d = 0 /\ x.n = 0

Neg(x) == [n |-> -x.n, d |-> x.d]

Add(a, b) ==
    IF IsNaN(a) \/ IsNaN(b) THEN NaN
    ELSE IF a.d = 0 /\ b.d = 0 THEN (IF a.n = b.n THEN a ELSE NaN)
    ELSE IF a.d = 0 THEN a
    ELSE IF b.d = 0 THEN b
    ELSE LET g == GCD(a.d, b.d)
         IN  Rat(a.n * (b.d \div g) + b.n * (a.d \div g), (a.d \div g) * b.d)

Sub(a, b) == Add(a, Neg(b))

Mul(a, b) ==
    IF IsNaN(a) \/ IsNaN(b) THEN NaN
    ELSE IF a.d = 0 \/ b.d = 0 THEN [n |-> Sign(a.n) * Sign(b.n), d |-> 0]
    ELSE LET g == Max(GCD(Abs(a.n), b.d), 1)
             k == Max(GCD(Abs(b.n), a.d), 1)
         IN  Rat((a.n \div g) * (b.n \div k), (a.d \div k) * (b.d \div g))

\* numpy true division: x/0 = +-inf, 0/0 = nan (a warning, not an exception)
Div(a, b) ==
    IF IsNaN(a) \/ IsNaN(b) THEN NaN
    ELSE IF a.d = 0 /\ b.d = 0 THEN NaN
    ELSE IF a.d = 0 THEN [n |-> a.n * (IF b.n < 0 THEN -1 ELSE 1), d |-> 0]
    ELSE IF b.d = 0 THEN Num(0)
    ELSE Mul(a, Rat(b.d, b.n))

\* float ==: NaN equals nothing, itself included
FloatEq(a, b) == ~IsNaN(a) /\ ~IsNaN(b) /\ a = b

\* float <= on finite values
Leq(a, b) ==
    LET g == GCD(a.d, b.d) IN a.n * (b.d \div g) <= b.n * (a.d \div g)

-----------------------------------------------------------------------------
(* 2-D arrays: a shape <<h, w>> and a value at every 0-based index pair.   *)
(* A failed numpy call (shapes that do not broadcast) is the value         *)
(* ValueError, which every later operation on it propagates.               *)

Idx(shape) == (0 .. shape[1] - 1) \X (0 .. shape[2] - 1)

ValueError == [error |-> "ValueError"]

IsError(a) == "error" \in DOMAIN a

\* what `ret` holds before the routine has returned
NoValue == [pending |-> TRUE]

\* numpy broadcasting of two 2-D shapes: per axis equal, or one of them 1
Broadcastable(s, t) == \A k \in 1..2 : s[k] = t[k] \/ s[k] = 1 \/ t[k] = 1

BroadcastShape(s, t) == [k \in 1..2 |-> IF s[k] = 1 THEN t[k] ELSE s[k]]

\* the element of `a` that broadcasting puts at index p of the result
At(a, p) == a.data[<<IF a.shape[1] = 1 THEN 0 ELSE p[1],
                     IF a.shape[2] = 1 THEN 0 ELSE p[2]>>]

\* the float operators +, - and * on two elements
Apply(op, x, y) ==
    CASE op = "+" -> Add(x, y)
      [] op = "-" -> Sub(x, y)
      [] op = "*" -> Mul(x, y)

\* a op b on arrays
ElementWise(op, a, b) ==
    IF IsError(a) \/ IsError(b) THEN ValueError
    ELSE IF ~Broadcastable(a.shape, b.shape) THEN ValueError
    ELSE LET s == BroadcastShape(a.shape, b.shape)
         IN  [shape |-> s, data |-> [p \in Idx(s) |-> Apply(op, At(a, p), At(b, p))]]

\* a Python scalar operand of an array expression
Scalar(v) == [shape |-> <<1, 1>>, data |-> [p \in Idx(<<1, 1>>) |-> v]]

\* (a == 0).astype(float)
IsZeroAsFloat(a) ==
    IF IsError(a) THEN ValueError
    ELSE [shape |-> a.shape,
          data |-> [p \in Idx(a.shape) |->
                       IF FloatEq(a.data[p], Num(0)) THEN Num(1) ELSE Num(0)]]

-----------------------------------------------------------------------------
(* mask_combine_rho                                                        *)

\* a variant that weighs the background by 1 - design_region
mask_combine_rho_one_minus(rho, bg_rho, design_region) ==
    ElementWise("+", ElementWise("*", rho, design_region),
                     ElementWise("*", bg_rho,
                                 ElementWise("-", Scalar(Num(1)), design_region)))

mask_combine_rho(rho, bg_rho, design_region) ==
    ElementWise("+", ElementWise("*", rho, design_region),
                     ElementWise("*", bg_rho, IsZeroAsFloat(design_region)))

-----------------------------------------------------------------------------
(* Inputs                                                                  *)

MaxH == 3
MaxW == 3

Shapes == (1 .. MaxH) \X (1 .. MaxW)

\* every array of a shape with cells drawn from `vals`
ArraysOver(shape, vals) ==
    { [shape |-> shape, data |-> d] : d \in [Idx(shape) -> vals] }

Const(shape, v) == [shape |-> shape, data |-> [p \in Idx(shape) |-> v]]

Eye(n) == [shape |-> <<n, n>>,
           data |-> [p \in Idx(<<n, n>>) |-> IF p[1] = p[2] THEN Num(1) ELSE Num(0)]]

-----------------------------------------------------------------------------
(* Calls of mask_combine_rho                                               *)

CombineRhoVals == {Num(0), Rat(1, 2), Num(1)}
CombineBgVals == {Num(0), Num(1)}
MaskVals == {Num(0), Num(1), Num(2)}

\* the cells are combined independently: rows and columns of up to two cells
CombineShapes == {<<1, 1>>, <<1, 2>>, <<2, 1>>}

CombineArgs ==
    { [rho |-> r, bg_rho |-> b, design_region |-> m] :
        r \in UNION { ArraysOver(s, CombineRhoVals) : s \in CombineShapes },
        b \in UNION { ArraysOver(s, CombineBgVals) : s \in CombineShapes },
        m \in UNION { ArraysOver(s, MaskVals) : s \in CombineShapes } }
    \cup
    { [rho |-> Const(<<3, 3>>, Num(1)), bg_rho |-> Const(<<3, 3>>, Num(0)),
       design_region |-> Eye(3)] }

InitCombine ==
    /\ fn = "mask_combine_rho"
    /\ args \in CombineArgs
    /\ pc = "call"
    /\ local = NoValue
    /\ ret = NoValue
    /\ fs = {}

CallMaskCombineRho ==
    /\ pc = "call"
    /\ fn = "mask_combine_rho"
    /\ ret' = mask_combine_rho(args.rho, args.bg_rho, args.design_region)
    /\ pc' = "done"
    /\ UNCHANGED <<fn, args, local, fs>>

NextCombine == CallMaskCombineRho

SpecCombine == InitCombine /\ [][NextCombine]_vars

\* a finished call of mask_combine_rho on three arrays of one common shape
CombineDone ==
    /\ pc = "done"
    /\ fn = "mask_combine_rho"
    /\ args.rho.shape = args.bg_rho.shape
    /\ args.rho.shape = args.design_region.shape

IdentityScenario ==
    /\ args.rho = Const(<<3, 3>>, Num(1))
    /\ args.bg_rho = Const(<<3, 3>>, Num(0))
    /\ args.design_region = Eye(3)

-----------------------------------------------------------------------------
(* operator_proj                                                           *)
(*                                                                         *)
(* tanh is transcendental; the model measures its argument in units of     *)
(* ln(2)/2, where tanh(t * ln(2)/2) = (2^t - 1) / (2^t + 1) is an exact    *)
(* rational for every integer t.  beta is given in the same units, and an  *)
(* argument between two integers takes the value at the nearest one, as a  *)
(* float tanh takes the value at the nearest float.                        *)

RECURSIVE Pow2(_)
Pow2(k) == IF k <= 0 THEN 1 ELSE 2 * Pow2(k - 1)

\* nearest integer to the finite rational x, halves away from zero
Round(x) ==
    IF x.n >= 0 THEN (2 * x.n + x.d) \div (2 * x.d)
    ELSE -((2 * (-x.n) + x.d) \div (2 * x.d))

Tanh(x) ==
    IF IsNaN(x) THEN NaN
    ELSE IF x.d = 0 THEN Num(x.n)
    ELSE LET t == Round(x)
         IN  IF t >= 0 THEN Rat(Pow2(t) - 1, Pow2(t) + 1)
             ELSE Rat(1 - Pow2(-t), Pow2(-t) + 1)

\* a variant whose numerator forgets the offset tanh(beta*eta)
ProjElement_no_offset(x, eta, beta) ==
    Div(Tanh(Mul(beta, Sub(x, eta))),
        Add(Tanh(Mul(beta, eta)), Tanh(Mul(beta, Sub(Num(1), eta)))))

\* one pass of lines 32-33 on one element
ProjElement(x, eta, beta) ==
    Div(Add(Tanh(Mul(beta, eta)), Tanh(Mul(beta, Sub(x, eta)))),
        Add(Tanh(Mul(beta, eta)), Tanh(Mul(beta, Sub(Num(1), eta)))))

ProjPass(rho, eta, beta) ==
    IF IsError(rho) THEN ValueError
    ELSE [shape |-> rho.shape,
          data |-> [p \in Idx(rho.shape) |-> ProjElement(rho.data[p], eta, beta)]]

RECURSIVE operator_proj(_, _, _, _)
operator_proj(rho, eta, beta, N) ==
    IF N <= 0 THEN rho
    ELSE operator_proj(ProjPass(rho, eta, beta), eta, beta, N - 1)

-----------------------------------------------------------------------------
(* Calls of operator_proj                                                  *)

MaxBetaUnits == 1
MaxNProj == 2

\* beta in units of ln(2)/2: multiples of 4, so that beta * x is an integer
\* for every x on the quarter grid; beta = 0 is the degenerate projection
BetaVals == { Num(4 * b) : b \in 0 .. MaxBetaUnits }

EtaVals == {Rat(1, 4), Rat(1, 2), Rat(3, 4)}

ProjRhoVals == {Rat(-1, 4), Num(0), Rat(1, 4), Rat(1, 2), Rat(3, 4), Num(1), Rat(5, 4)}

ProjArgs ==
    { [rho |-> r, eta |-> e, beta |-> b, N |-> n] :
        r \in ArraysOver(<<1, 2>>, ProjRhoVals),
        e \in EtaVals, b \in BetaVals, n \in 0 .. MaxNProj }

InitProj ==
    /\ fn = "operator_proj"
    /\ args \in ProjArgs
    /\ pc = "call"
    /\ local = NoValue
    /\ ret = NoValue
    /\ fs = {}

CallOperatorProj ==
    /\ pc = "call"
    /\ fn = "operator_proj"
    /\ ret' = operator_proj(args.rho, args.eta, args.beta, args.N)
    /\ pc' = "done"
    /\ UNCHANGED <<fn, args, local, fs>>

NextProj == CallOperatorProj

SpecProj == InitProj /\ [][NextProj]_vars

\* a finished call of operator_proj with eta in (0, 1) and beta > 0
ProjDone ==
    /\ pc = "done"
    /\ fn = "operator_proj"
    /\ Leq(Num(0), args.eta) /\ args.eta # Num(0)
    /\ Leq(args.eta, Num(1)) /\ args.eta # Num(1)
    /\ Leq(Num(0), args.beta) /\ args.beta # Num(0)

\* the result is monotonic non-decreasing in the input, element against element
ProjMonotonic ==
    \A p, q \in Idx(args.rho.shape) :
        Leq(args.rho.data[p], args.rho.data[q]) => Leq(ret.data[p], ret.data[q])

(* C8, as stated: for every eta in (0, 1) and beta > 0 one pass maps the   *)
(* input eta to 1/2, the midpoint of [f(0), f(1)] = [0, 1], and the result *)
(* is monotonic non-decreasing in the input.                               *)
C8_EtaMapsToHalfForEveryEta ==
    ProjDone =>
        /\ \A p \in Idx(args.rho.shape) :
              (args.N = 1 /\ args.rho.data[p] = args.eta) => ret.data[p] = Rat(1, 2)
        /\ \A p \in Idx(args.rho.shape) :
              (args.N = 1 /\ args.rho.data[p] = Num(0)) => ret.data[p] = Num(0)
        /\ \A p \in Idx(args.rho.shape) :
              (args.N = 1 /\ args.rho.data[p] = Num(1)) => ret.data[p] = Num(1)
        /\ ProjMonotonic

(* C8, amended: for eta in (0, 1) and beta > 0 one pass maps 0 to 0 and 1  *)
(* to 1; it maps the input eta to tanh(beta*eta) / (tanh(beta*eta) +       *)
(* tanh(beta*(1-eta))), which is 1/2 when eta = 1/2 and lies on the same   *)
(* side of 1/2 as eta otherwise; the result is monotonic non-decreasing.   *)
C8_HalfMapsToHalf ==
    ProjDone =>
        /\ \A p \in Idx(args.rho.shape) :
              (args.N = 1 /\ args.rho.data[p] = args.eta) =>
                  /\ args.eta = Rat(1, 2) => ret.data[p] = Rat(1, 2)
                  /\ Leq(args.eta, Rat(1, 2)) => Leq(ret.data[p], Rat(1, 2))
                  /\ Leq(Rat(1, 2), args.eta) => Leq(Rat(1, 2), ret.data[p])
        /\ \A p \in Idx(args.rho.shape) :
              (args.N = 1 /\ args.rho.data[p] = Num(0)) => ret.data[p] = Num(0)
        /\ \A p \in Idx(args.rho.shape) :
              (args.N = 1 /\ args.rho.data[p] = Num(1)) => ret.data[p] = Num(1)
        /\ ProjMonotonic

\* one pass with eta = 1/2 on an array holding eta and a larger input
C8_Witness ==
    /\ ProjDone
    /\ args.N = 1
    /\ args.eta = Rat(1, 2)
    /\ args.rho.data[<<0, 0>>] = Rat(1, 2)
    /\ args.rho.data[<<0, 1>>] = Num(1)
    /\ ret.data[<<0, 0>>] = Rat(1, 2)
    /\ ret.data[<<0, 1>>] = Num(1)

-----------------------------------------------------------------------------
(* _create_blur_kernel and operator_blur                                   *)

\* the sum of f[lo], f[lo+1], .., f[hi]; 0.0 when the range is empty
SumRange(lo, hi, f) ==
    LET S[i \in lo .. hi] == IF i = hi THEN f[i] ELSE Add(f[i], S[i + 1])
    IN  IF lo > hi THEN Num(0) ELSE S[lo]

\* ndarray.sum() of a 2-D array
ArraySum(a) ==
    SumRange(0, a.shape[1] - 1,
             [i \in 0 .. a.shape[1] - 1 |->
                 SumRange(0, a.shape[2] - 1,
                          [j \in 0 .. a.shape[2] - 1 |-> a.data[<<i, j>>]])])

\* a variant that keeps the cells at distance exactly 1
circle_closed(r, c, radius) ==
    { p \in ((r - radius) .. (r + radius)) \X ((c - radius) .. (c + radius)) :
        (p[1] - r) * (p[1] - r) + (p[2] - c) * (p[2] - c) <= radius * radius }

\* skimage.draw.circle(r, c, radius) with shape=None: the index pairs of the
\* bounding box [ceil(center - radius), floor(center + radius)] whose
\* normalized distance ((i-r)/radius)^2 + ((j-c)/radius)^2 is below 1
circle(r, c, radius) ==
    { p \in ((r - radius) .. (r + radius)) \X ((c - radius) .. (c + radius)) :
        (p[1] - r) * (p[1] - r) + (p[2] - c) * (p[2] - c) < radius * radius }

\* kernel[rr, cc] = 1 on np.zeros(shape): an index outside [-n, n) on an
\* axis of n cells raises IndexError, a negative one counts from the end
IndexInBounds(p, shape) ==
    /\ -shape[1] <= p[1] /\ p[1] < shape[1]
    /\ -shape[2] <= p[2] /\ p[2] < shape[2]

WrapIndex(p, shape) == <<p[1] % shape[1], p[2] % shape[2]>>

IndexError == [error |-> "IndexError"]

SetOnes(shape, idx) ==
    IF \E p \in idx : ~IndexInBounds(p, shape) THEN IndexError
    ELSE [shape |-> shape,
          data |-> [q \in Idx(shape) |->
                       IF \E p \in idx : WrapIndex(p, shape) = q
                       THEN Num(1) ELSE Num(0)]]

\* kernel / kernel.sum()
DivideBySum(a) ==
    IF IsError(a) THEN a
    ELSE LET total == ArraySum(a)
         IN  [shape |-> a.shape,
              data |-> [p \in Idx(a.shape) |-> Div(a.data[p], total)]]

create_blur_kernel(radius) ==
    DivideBySum(SetOnes(<<2 * radius + 1, 2 * radius + 1>>,
                        circle(radius, radius, radius + 1)))

\* convolve(a, k, mode='full'): out[p] = sum over q of a[q] * k[p - q], on
\* a shape of len(a) + len(k) - 1 cells per axis
ConvFull(a, k) ==
    IF IsError(a) \/ IsError(k) THEN ValueError
    ELSE LET s == <<Max(a.shape[1] + k.shape[1] - 1, 0),
                    Max(a.shape[2] + k.shape[2] - 1, 0)>>
         IN  [shape |-> s,
              data |-> [p \in Idx(s) |->
                  SumRange(Max(0, p[1] - (k.shape[1] - 1)), Min(a.shape[1] - 1, p[1]),
                      [i \in 0 .. a.shape[1] - 1 |->
                  SumRange(Max(0, p[2] - (k.shape[2] - 1)), Min(a.shape[2] - 1, p[2]),
                      [j \in 0 .. a.shape[2] - 1 |->
                          Mul(a.data[<<i, j>>], k.data[<<p[1] - i, p[2] - j>>])])])]]

\* Python's slice bounds on an axis of n cells: a negative bound counts from
\* the end, and every bound is clipped to [0, n]
SliceBound(b, n) == IF b < 0 THEN Max(b + n, 0) ELSE Min(b, n)

\* a[start:stop, start:stop]
Slice2(a, start, stop) ==
    IF IsError(a) THEN a
    ELSE LET lo1 == SliceBound(start, a.shape[1])
             hi1 == SliceBound(stop, a.shape[1])
             lo2 == SliceBound(start, a.shape[2])
             hi2 == SliceBound(stop, a.shape[2])
             s == <<Max(hi1 - lo1, 0), Max(hi2 - lo2, 0)>>
         IN  [shape |-> s,
              data |-> [p \in Idx(s) |-> a.data[<<p[1] + lo1, p[2] + lo2>>]]]

\* the array an assignment stores: the same value, with every element
\* computed once at the assignment instead of at each later read
Stored(a) == IF IsError(a) THEN a ELSE IF a.data = a.data THEN a ELSE a

\* a variant that crops one cell too many at the far border
BlurPass_short(rho, kernel, radius) ==
    Stored(Slice2(ConvFull(rho, kernel), radius, -radius - 1))

\* a variant whose crop window is shifted by one cell
BlurPass_shifted(rho, kernel, radius) ==
    Stored(Slice2(ConvFull(rho, kernel), radius - 1, -radius - 1))

\* line 59: one pass of the blur
BlurPass(rho, kernel, radius) ==
    Stored(Slice2(ConvFull(rho, kernel), radius, -radius))

RECURSIVE BlurLoop(_, _, _, _)
BlurLoop(rho, kernel, radius, N) ==
    IF N <= 0 THEN rho
    ELSE BlurLoop(BlurPass(rho, kernel, radius), kernel, radius, N - 1)

operator_blur(rho, radius, N) ==
    BlurLoop(rho, Stored(create_blur_kernel(radius)), radius, N)

-----------------------------------------------------------------------------
(* epsr_parameterization                                                   *)

\* a variant without the final masking of line 75
epsr_parameterization_unmasked(rho, bg_rho, design_region, epsr_min, epsr_max, radius, N_blur, beta, eta, N_proj) ==
    LET combined == mask_combine_rho(rho, bg_rho, design_region)
        blurred == operator_blur(combined, radius, N_blur)
        projected == operator_proj(blurred, eta, beta, N_proj)
    IN  ElementWise("+", Scalar(epsr_min),
                    ElementWise("*", Scalar(Sub(epsr_max, epsr_min)), projected))

epsr_parameterization(rho, bg_rho, design_region, epsr_min, epsr_max, radius, N_blur, beta, eta, N_proj) ==
    LET combined == mask_combine_rho(rho, bg_rho, design_region)
        blurred == operator_blur(combined, radius, N_blur)
        projected == operator_proj(blurred, eta, beta, N_proj)
        masked == mask_combine_rho(projected, bg_rho, design_region)
    IN  ElementWise("+", Scalar(epsr_min),
                    ElementWise("*", Scalar(Sub(epsr_max, epsr_min)), masked))

-----------------------------------------------------------------------------
(* Calls of _create_blur_kernel, operator_blur and epsr_parameterization   *)

MaxKernelRadius == 4
MaxRadius == 1
MaxNBlur == 2

Impulse(shape, at) ==
    [shape |-> shape, data |-> [p \in Idx(shape) |-> IF p = at THEN Num(1) ELSE Num(0)]]

\* 0, 1/(h*w), 2/(h*w), .. in row-major order
Ramp(shape) ==
    [shape |-> shape,
     data |-> [p \in Idx(shape) |->
                  Rat(p[1] * shape[2] + p[2], shape[1] * shape[2])]]

\* the densities the blur is tried on: uniform, a single filled cell at
\* every position, and a gradient
BlurInputs(shape) ==
    {Const(shape, Num(1)), Ramp(shape)} \cup { Impulse(shape, p) : p \in Idx(shape) }

KernelArgs == { [radius |-> r] : r \in 0 .. MaxKernelRadius }

BlurArgs ==
    { [rho |-> a, radius |-> r, N |-> n] :
        a \in UNION { BlurInputs(s) : s \in Shapes },
        r \in 0 .. MaxRadius, n \in 0 .. MaxNBlur }

EpsrShapes == {<<1, 1>>, <<1, 2>>, <<2, 2>>}

EpsrArrays ==
    UNION { { [rho |-> r, bg_rho |-> b, design_region |-> m] :
                r \in {Const(s, Num(1)), Ramp(s)},
                b \in {Const(s, Num(0)), Const(s, Rat(1, 2))},
                m \in ArraysOver(s, {Num(0), Num(1)}) } : s \in EpsrShapes }

EpsrArgs ==
    { [rho |-> a.rho, bg_rho |-> a.bg_rho, design_region |-> a.design_region,
       epsr_min |-> Num(1), epsr_max |-> Num(12),
       radius |-> r, N_blur |-> nb, beta |-> b, eta |-> e, N_proj |-> np] :
        a \in EpsrArrays, r \in 0 .. MaxRadius, nb \in 0 .. MaxNBlur,
        b \in BetaVals, e \in {Rat(1, 4), Rat(1, 2)}, np \in 0 .. MaxNProj }

InitBlur ==
    /\ \/ fn = "_create_blur_kernel" /\ args \in KernelArgs
       \/ fn = "operator_blur" /\ args \in BlurArgs
       \/ fn = "epsr_parameterization" /\ args \in EpsrArgs
    /\ pc = "call"
    /\ local = NoValue
    /\ ret = NoValue
    /\ fs = {}

CallCreateBlurKernel ==
    /\ pc = "call"
    /\ fn = "_create_blur_kernel"
    /\ ret' = create_blur_kernel(args.radius)
    /\ pc' = "done"
    /\ UNCHANGED <<fn, args, local, fs>>

\* operator_blur, pass by pass: line 55, then line 59 N times, then line 61
BlurEnter ==
    /\ pc = "call"
    /\ fn = "operator_blur"
    /\ local' = [kernel |-> create_blur_kernel(args.radius), rho |-> args.rho, i |-> 0]
    /\ pc' = "loop"
    /\ UNCHANGED <<fn, args, ret, fs>>

BlurIterate ==
    /\ pc = "loop"
    /\ fn = "operator_blur"
    /\ local.i < args.N
    /\ local' = [local EXCEPT !.rho = BlurPass(local.rho, local.kernel, args.radius),
                              !.i = local.i + 1]
    /\ UNCHANGED <<fn, args, pc, ret, fs>>

BlurReturn ==
    /\ pc = "loop"
    /\ fn = "operator_blur"
    /\ local.i >= args.N
    /\ ret' = local.rho
    /\ pc' = "done"
    /\ UNCHANGED <<fn, args, local, fs>>

CallEpsrParameterization ==
    /\ pc = "call"
    /\ fn = "epsr_parameterization"
    /\ ret' = epsr_parameterization(args.rho, args.bg_rho, args.design_region,
                                    args.epsr_min, args.epsr_max, args.radius,
                                    args.N_blur, args.beta, args.eta, args.N_proj)
    /\ pc' = "done"
    /\ UNCHANGED <<fn, args, local, fs>>

NextBlur ==
    \/ CallCreateBlurKernel
    \/ BlurEnter
    \/ BlurIterate
    \/ BlurReturn
    \/ CallEpsrParameterization

SpecBlur == InitBlur /\ [][NextBlur]_vars

-----------------------------------------------------------------------------
(* Properties of the kernel, the blur and the parameterization             *)

KernelDone == pc = "done" /\ fn = "_create_blur_kernel"

(* C6: _create_blur_kernel(r) has shape (2r+1, 2r+1) and sums to 1: every  *)
(* index of the rasterized disk lies inside the array, at least one cell   *)
(* is set, the K set cells all hold 1/K and the other cells hold 0.        *)
C6_KernelNormalizedDisk ==
    KernelDone =>
        LET r == args.radius
            disk == circle(r, r, r + 1)
            K == Cardinality(disk)
        IN  /\ ~IsError(ret)
            /\ ret.shape = <<2 * r + 1, 2 * r + 1>>
            /\ ArraySum(ret) = Num(1)
            /\ \A p \in disk : p \in Idx(ret.shape)
            /\ K >= 1
            /\ \A q \in Idx(ret.shape) :
                  ret.data[q] = IF q \in disk THEN Rat(1, K) ELSE Num(0)

\* radius 3 is the first kernel that is not a full square: 45 of 49 cells
C6_Witness ==
    /\ KernelDone
    /\ args.radius = 3
    /\ ret.data[<<0, 0>>] = Num(0)
    /\ ret.data[<<0, 1>>] = Rat(1, 45)
    /\ ret.data[<<3, 3>>] = Rat(1, 45)

BlurRunning == fn = "operator_blur" /\ pc \in {"loop", "done"}

BlurDone == fn = "operator_blur" /\ pc = "done"

EpsrDone ==
    /\ fn = "epsr_parameterization"
    /\ pc = "done"
    /\ args.rho.shape = args.bg_rho.shape
    /\ args.rho.shape = args.design_region.shape

(* C4: operator_blur(rho, radius=0, N) with N >= 1 returns an array of the *)
(* shape and the values of rho.                                            *)
C4_RadiusZeroReturnsInput ==
    (BlurDone /\ args.radius = 0 /\ args.N >= 1) =>
        /\ ~IsError(ret)
        /\ ret.shape = args.rho.shape
        /\ ret = args.rho

(* C5: for radius >= 1 the array operator_blur holds after each pass has   *)
(* the shape (h, w) of its input, the full convolution of a pass having    *)
(* (h + 2*radius, w + 2*radius) cells; and epsr_parameterization returns   *)
(* an array of the shape of rho.                                           *)
C5_BlurKeepsShape ==
    /\ (BlurRunning /\ args.radius >= 1) =>
          /\ ~IsError(local.rho)
          /\ local.rho.shape = args.rho.shape
          /\ ConvFull(local.rho, local.kernel).shape =
                 <<args.rho.shape[1] + 2 * args.radius,
                   args.rho.shape[2] + 2 * args.radius>>
    /\ (BlurDone /\ args.radius >= 1) => ret.shape = args.rho.shape
    /\ (EpsrDone /\ args.radius >= 1) =>
          /\ ~IsError(ret)
          /\ ret.shape = args.rho.shape

\* two passes done on a 2x3 input, and a parameterization of a 1x2 input
C5_Witness ==
    \/ /\ BlurDone
       /\ args.radius >= 1
       /\ local.i = 2
       /\ args.rho.shape = <<2, 3>>
       /\ ret.shape = <<2, 3>>
    \/ /\ EpsrDone
       /\ args.radius >= 1
       /\ args.N_blur >= 1
       /\ args.rho.shape = <<1, 2>>
       /\ ret.shape = <<1, 2>>

\* the kernel convolved with itself: n factors
RECURSIVE SelfConvolved(_, _)
SelfConvolved(kernel, n) ==
    IF n <= 1 THEN kernel
    ELSE Stored(ConvFull(SelfConvolved(kernel, n - 1), kernel))

\* one full convolution with the N-fold kernel, cropped by N*radius per border
SinglePass(rho, radius, N) ==
    Slice2(ConvFull(rho, SelfConvolved(Stored(create_blur_kernel(radius)), N)),
           N * radius, -(N * radius))

\* the cells at least `margin` cells away from every border
Interior(shape, margin) ==
    { p \in Idx(shape) :
        /\ margin <= p[1] /\ p[1] <= shape[1] - 1 - margin
        /\ margin <= p[2] /\ p[2] <= shape[2] - 1 - margin }

(* C7, as stated: for radius >= 1 and N >= 1 the N passes give, at every   *)
(* cell, what one full convolution with the N-fold self-convolved kernel   *)
(* cropped by N*radius cells per border gives.                             *)
C7_PassesEqualSinglePassEverywhere ==
    (BlurDone /\ args.radius >= 1 /\ args.N >= 1) =>
        LET single == SinglePass(args.rho, args.radius, args.N)
        IN  /\ ret.shape = single.shape
            /\ \A p \in Idx(ret.shape) : ret.data[p] = single.data[p]

(* C7, amended: the two agree at every cell that is at least               *)
(* (N-1)*radius cells away from every border of the array (every cell,     *)
(* when N = 1); nearer to a border the passes give less, since each pass   *)
(* drops what the previous one spread outside the array.                   *)
C7_PassesEqualSinglePassInside ==
    (BlurDone /\ args.radius >= 1 /\ args.N >= 1) =>
        LET single == SinglePass(args.rho, args.radius, args.N)
        IN  /\ ret.shape = single.shape
            /\ \A p \in Interior(ret.shape, (args.N - 1) * args.radius) :
                  ret.data[p] = single.data[p]

\* two passes of radius 1 on a 3x3 impulse at the centre: the centre cell
\* is inside, and holds 9/81 = 1/9 either way
C7_Witness ==
    /\ BlurDone
    /\ args.radius = 1
    /\ args.N = 2
    /\ args.rho = Impulse(<<3, 3>>, <<1, 1>>)
    /\ <<1, 1>> \in Interior(ret.shape, 1)
    /\ ret.data[<<1, 1>>] = Rat(1, 9)

\* the projection divides by tanh(beta*eta) + tanh(beta*(1-eta))
ProjDenominator(eta, beta) ==
    Add(Tanh(Mul(beta, eta)), Tanh(Mul(beta, Sub(Num(1), eta))))

BackgroundValue(p) ==
    Add(args.epsr_min, Mul(Sub(args.epsr_max, args.epsr_min), args.bg_rho.data[p]))

(* C2, as stated: for radius >= 1 and every N_blur, beta, eta and N_proj   *)
(* the output at each cell where design_region == 0 is exactly             *)
(* epsr_min + (epsr_max - epsr_min) * bg_rho there.                        *)
C2_BackgroundRestoredForEveryBeta ==
    (EpsrDone /\ args.radius >= 1) =>
        \A p \in Idx(args.rho.shape) :
            args.design_region.data[p] = Num(0) => ret.data[p] = BackgroundValue(p)

(* C2, amended: the same, provided the projection produced finite values:  *)
(* N_proj = 0, or the projection's denominator tanh(beta*eta) +            *)
(* tanh(beta*(1-eta)) is not zero (it is zero for beta = 0, where the      *)
(* projection yields NaN and NaN * 0 is NaN, not 0).                       *)
C2_BackgroundRestoredWhenFinite ==
    (/\ EpsrDone
     /\ args.radius >= 1
     /\ (args.N_proj <= 0 \/ ProjDenominator(args.eta, args.beta) # Num(0))) =>
        \A p \in Idx(args.rho.shape) :
            args.design_region.data[p] = Num(0) => ret.data[p] = BackgroundValue(p)

\* a blurred and projected 1x2 field, one design cell of density 1 beside
\* one background cell of density 0: the blur bleeds 1/9 into the background
\* cell, and the output there is still epsr_min
C2_Witness ==
    /\ EpsrDone
    /\ args.radius = 1
    /\ args.N_blur = 1
    /\ args.N_proj = 1
    /\ args.beta = Num(4)
    /\ args.rho = Const(<<1, 2>>, Num(1))
    /\ args.bg_rho = Const(<<1, 2>>, Num(0))
    /\ args.design_region.data[<<0, 0>>] = Num(1)
    /\ args.design_region.data[<<0, 1>>] = Num(0)
    /\ operator_blur(mask_combine_rho(args.rho, args.bg_rho, args.design_region),
                     1, 1).data[<<0, 1>>] = Rat(1, 9)
    /\ ret.data[<<0, 1>>] = args.epsr_min

-----------------------------------------------------------------------------
(* animate                                                                 *)
(*                                                                         *)
(* Only the statements that touch the file system are steps: savefig per   *)
(* frame, get_writer, imread/append_data per frame, the writer's close at  *)
(* the end of the with block, os.remove per staged file.  Any of them may  *)
(* raise; an exception leaves animate at once (pc = "raised", with         *)
(* local.raised naming the call that raised), through the with block's     *)
(* exit when the writer is open.  local.events is the history of the file  *)
(* operations that succeeded, and local.fs0 the file system on entry.      *)

MaxFrames == 3

DigitChars == <<"0", "1", "2", "3", "4", "5", "6", "7", "8", "9">>

\* str(k) for an integer k >= 0, as a sequence of characters
RECURSIVE Decimal(_)
Decimal(k) ==
    IF k < 10 THEN <<DigitChars[k + 1]>>
    ELSE Decimal(k \div 10) \o <<DigitChars[(k % 10) + 1]>>

\* a variant that names every frame alike
FramePath_fixed(frame) == [dir |-> "./gif/frames/", name |-> <<"f">>, ext |-> ".png"]

\* f'./gif/frames/{frame}.png'
FramePath(frame) == [dir |-> "./gif/frames/", name |-> Decimal(frame), ext |-> ".png"]

\* f'./gif/{gif_name}.gif'
GifPath(gif_name) == [dir |-> "./gif/", name |-> gif_name, ext |-> ".gif"]

GifDir == [dir |-> "./", name |-> <<"g", "i", "f">>, ext |-> "/"]

FramesDir == [dir |-> "./gif/", name |-> <<"f", "r", "a", "m", "e", "s">>, ext |-> "/"]

SeqToSet(q) == { q[k] : k \in 1 .. Len(q) }

Event(op, path) == [op |-> op, path |-> path]

GifNames == {<<"m", "y", "g", "i", "f">>, <<"0">>}

AnimateArgs ==
    { [frames_num |-> n, gif_name |-> g] : n \in 1 .. MaxFrames, g \in GifNames }

\* what the working directory may hold before the call: the two
\* directories or not, and files left by earlier calls
InitialFileSystems(a) ==
    {{}, {GifDir}}
    \cup { {GifDir, FramesDir} \cup stale :
             stale \in SUBSET {FramePath(0), FramePath(1), FramePath(MaxFrames),
                               GifPath(a.gif_name)} }

InitAnimate ==
    /\ fn = "animate"
    /\ args \in AnimateArgs
    /\ pc = "call"
    /\ local = NoValue
    /\ ret = NoValue
    /\ fs \in InitialFileSystems(args)

AnimateEnter ==
    /\ pc = "call"
    /\ fn = "animate"
    /\ local' = [frame |-> 0, filenames |-> <<>>, writer |-> "none", next |-> 0,
                 pending |-> {}, events |-> <<>>, fs0 |-> fs, raised |-> "no"]
    /\ pc' = "frames"
    /\ UNCHANGED <<fn, args, ret, fs>>

\* lines 106-111 for one frame: the name is appended, then the frame is saved
SaveFrame ==
    /\ pc = "frames"
    /\ fn = "animate"
    /\ local.frame < args.frames_num
    /\ FramesDir \in fs
    /\ LET filename == FramePath(local.frame)
       IN  /\ fs' = fs \cup {filename}
           /\ local' = [local EXCEPT
                            !.filenames = Append(local.filenames, filename),
                            !.events = Append(local.events, Event("write", filename)),
                            !.frame = local.frame + 1]
    /\ UNCHANGED <<fn, args, pc, ret>>

\* a variant that removes the staged files when savefig raises
SaveFrameFails_cleanup ==
    /\ pc = "frames"
    /\ fn = "animate"
    /\ local.frame < args.frames_num
    /\ local' = [local EXCEPT
                     !.filenames = Append(local.filenames, FramePath(local.frame)),
                     !.raised = "savefig"]
    /\ fs' = fs \ SeqToSet(local.filenames)
    /\ pc' = "raised"
    /\ UNCHANGED <<fn, args, ret>>

\* savefig raises (always so without the directory); a file it had begun
\* may or may not be left behind
SaveFrameFails ==
    /\ pc = "frames"
    /\ fn = "animate"
    /\ local.frame < args.frames_num
    /\ LET filename == FramePath(local.frame)
       IN  /\ local' = [local EXCEPT !.filenames = Append(local.filenames, filename),
                                     !.raised = "savefig"]
           /\ \/ fs' = fs
              \/ FramesDir \in fs /\ fs' = fs \cup {filename}
    /\ pc' = "raised"
    /\ UNCHANGED <<fn, args, ret>>

\* line 114: the writer opens the output file
OpenWriter ==
    /\ pc = "frames"
    /\ fn = "animate"
    /\ local.frame >= args.frames_num
    /\ GifDir \in fs
    /\ fs' = fs \cup {GifPath(args.gif_name)}
    /\ local' = [local EXCEPT
                     !.writer = "open",
                     !.events = Append(local.events, Event("open", GifPath(args.gif_name)))]
    /\ pc' = "append"
    /\ UNCHANGED <<fn, args, ret>>

OpenWriterFails ==
    /\ pc = "frames"
    /\ fn = "animate"
    /\ local.frame >= args.frames_num
    /\ local' = [local EXCEPT !.raised = "get_writer"]
    /\ pc' = "raised"
    /\ UNCHANGED <<fn, args, ret, fs>>

\* a variant that walks the list from its end
AppendFrame_reversed ==
    /\ pc = "append"
    /\ fn = "animate"
    /\ local.next < Len(local.filenames)
    /\ local.filenames[Len(local.filenames) - local.next] \in fs
    /\ local' = [local EXCEPT
                     !.events = Append(local.events,
                         Event("append", local.filenames[Len(local.filenames) - local.next])),
                     !.next = local.next + 1]
    /\ UNCHANGED <<fn, args, pc, ret, fs>>

\* lines 116-118 for one file name, in list order
AppendFrame ==
    /\ pc = "append"
    /\ fn = "animate"
    /\ local.next < Len(local.filenames)
    /\ local.filenames[local.next + 1] \in fs
    /\ local' = [local EXCEPT
                     !.events = Append(local.events,
                                       Event("append", local.filenames[local.next + 1])),
                     !.next = local.next + 1]
    /\ UNCHANGED <<fn, args, pc, ret, fs>>

\* imread or append_data raises: the with block closes the writer on the way out
AppendFrameFails ==
    /\ pc = "append"
    /\ fn = "animate"
    /\ local.next < Len(local.filenames)
    /\ local' = [local EXCEPT !.writer = "closed", !.raised = "append"]
    /\ pc' = "raised"
    /\ UNCHANGED <<fn, args, ret, fs>>

\* the end of the with block; line 122 then builds set(filenames)
CloseWriter ==
    /\ pc = "append"
    /\ fn = "animate"
    /\ local.next >= Len(local.filenames)
    /\ local' = [local EXCEPT
                     !.writer = "closed",
                     !.events = Append(local.events, Event("close", GifPath(args.gif_name))),
                     !.pending = SeqToSet(local.filenames)]
    /\ pc' = "remove"
    /\ UNCHANGED <<fn, args, ret, fs>>

CloseWriterFails ==
    /\ pc = "append"
    /\ fn = "animate"
    /\ local.next >= Len(local.filenames)
    /\ local' = [local EXCEPT !.writer = "closed", !.raised = "close"]
    /\ pc' = "raised"
    /\ UNCHANGED <<fn, args, ret, fs>>

\* line 123 for one element of set(filenames), in the set's own order
RemoveFile ==
    /\ pc = "remove"
    /\ fn = "animate"
    /\ \E filename \in local.pending :
          /\ filename \in fs
          /\ fs' = fs \ {filename}
          /\ local' = [local EXCEPT
                           !.pending = local.pending \ {filename},
                           !.events = Append(local.events, Event("remove", filename))]
    /\ UNCHANGED <<fn, args, pc, ret>>

RemoveFileFails ==
    /\ pc = "remove"
    /\ fn = "animate"
    /\ local.pending # {}
    /\ local' = [local EXCEPT !.raised = "remove"]
    /\ pc' = "raised"
    /\ UNCHANGED <<fn, args, ret, fs>>

AnimateReturn ==
    /\ pc = "remove"
    /\ fn = "animate"
    /\ local.pending = {}
    /\ ret' = [none |-> TRUE]
    /\ pc' = "done"
    /\ UNCHANGED <<fn, args, local, fs>>

NextAnimate ==
    \/ AnimateEnter
    \/ SaveFrame
    \/ SaveFrameFails
    \/ OpenWriter
    \/ OpenWriterFails
    \/ AppendFrame
    \/ AppendFrameFails
    \/ CloseWriter
    \/ CloseWriterFails
    \/ RemoveFile
    \/ RemoveFileFails
    \/ AnimateReturn

SpecAnimate == InitAnimate /\ [][NextAnimate]_vars

-----------------------------------------------------------------------------
(* Properties of animate                                                   *)

AnimateStarted == fn = "animate" /\ pc # "call"

\* the paths of the events of one kind, in the order they happened
PathsOf(op) ==
    LET hits == SelectSeq(local.events, LAMBDA e : e.op = op)
    IN  [k \in 1 .. Len(hits) |-> hits[k].path]

StagedFrames == { FramePath(k) : k \in 0 .. args.frames_num - 1 }

(* C3: a call with frames_num = n >= 1 in which no step fails creates      *)
(* exactly the n staged files 0.png .. (n-1).png, removes each of them     *)
(* exactly once, and returns with none of them left and with exactly one   *)
(* output file, ./gif/{gif_name}.gif, produced.                            *)
C3_FramesStagedAndCleaned ==
    (fn = "animate" /\ pc = "done") =>
        LET n == args.frames_num
            written == PathsOf("write")
            removed == PathsOf("remove")
        IN  /\ Len(written) = n
            /\ \A k \in 0 .. n - 1 : written[k + 1] = FramePath(k)
            /\ Cardinality(SeqToSet(written)) = n
            /\ Len(removed) = n
            /\ SeqToSet(removed) = SeqToSet(written)
            /\ StagedFrames \cap fs = {}
            /\ PathsOf("open") = <<GifPath(args.gif_name)>>
            /\ GifPath(args.gif_name) \in fs
            /\ fs = (local.fs0 \ StagedFrames) \cup {GifPath(args.gif_name)}

\* a finished call of three frames that found a stale 0.png and no old gif
C3_Witness ==
    /\ fn = "animate"
    /\ pc = "done"
    /\ args.frames_num = 3
    /\ FramePath(0) \in local.fs0
    /\ GifPath(args.gif_name) \notin local.fs0
    /\ Len(PathsOf("remove")) = 3
    /\ GifPath(args.gif_name) \in fs

(* C9: the three phases are strictly ordered.  The first n file            *)
(* operations write frames 0 .. n-1 in that order; the next opens the gif; *)
(* the next n append frames 0 .. n-1 in that order, each once; the next    *)
(* closes the writer; only then are staged files removed.                  *)
C9_PhasesOrdered ==
    AnimateStarted =>
        LET n == args.frames_num
            e == local.events
        IN  \A i \in 1 .. Len(e) :
                /\ i <= n => e[i] = Event("write", FramePath(i - 1))
                /\ i = n + 1 => e[i] = Event("open", GifPath(args.gif_name))
                /\ (n + 2 <= i /\ i <= 2 * n + 1) =>
                       e[i] = Event("append", FramePath(i - n - 2))
                /\ i = 2 * n + 2 => e[i] = Event("close", GifPath(args.gif_name))
                /\ i > 2 * n + 2 =>
                       /\ e[i].op = "remove"
                       /\ local.writer = "closed"
                       /\ e[i].path \in StagedFrames

\* a finished call of three frames: 3 writes, open, 3 appends, close, 3 removes
C9_Witness ==
    /\ fn = "animate"
    /\ pc = "done"
    /\ args.frames_num = 3
    /\ Len(local.events) = 11
    /\ local.events[4].op = "open"
    /\ local.events[6] = Event("append", FramePath(1))
    /\ local.events[8].op = "close"
    /\ local.events[9].op = "remove"

AssemblyCalls == {"get_writer", "append", "close"}

(* C10: when the write of frame k or a step of the gif assembly raises,    *)
(* animate ends there: nothing has been removed and nothing is removed,    *)
(* every frame file this call wrote (frames 0 .. k-1, or all of them when  *)
(* the assembly raised) still exists, and no later frame is written.       *)
C10_NoCleanupOnFailure ==
    (fn = "animate" /\ pc = "raised" /\ local.raised \in AssemblyCalls \cup {"savefig"}) =>
        LET n == args.frames_num
            written == PathsOf("write")
        IN  /\ PathsOf("remove") = <<>>
            /\ ~ENABLED NextAnimate
            /\ \A k \in 1 .. Len(written) : written[k] \in fs
            /\ local.raised = "savefig" =>
                   /\ local.frame < n
                   /\ written = [k \in 1 .. local.frame |-> FramePath(k - 1)]
            /\ local.raised \in AssemblyCalls =>
                   /\ written = [k \in 1 .. n |-> FramePath(k - 1)]
                   /\ StagedFrames \subseteq fs

\* the write of frame 2 raised after frames 0 and 1 were written, and an
\* append raised with all three frames written
C10_Witness ==
    /\ fn = "animate"
    /\ pc = "raised"
    /\ args.frames_num = 3
    /\ \/ /\ local.raised = "savefig"
          /\ local.frame = 2
          /\ {FramePath(0), FramePath(1)} \subseteq fs
          /\ FramePath(2) \notin fs
       \/ /\ local.raised = "append"
          /\ local.next = 1
          /\ StagedFrames \subseteq fs

====
